---- MODULE Spec2Model ----
(***************************************************************************)
(* State-machine model of the Socket.IO Azure Service Bus emitter.         *)
(*                                                                         *)
(* The repository holds two implementations of the same Emitter /          *)
(* BroadcastOperator pair:                                                 *)
(*   - the subject-routed dialect   (src/lib/index.ts), and                *)
(*   - the property-routed dialect  (src/unnamed/part_003).                *)
(* The variable `dialect` fixes which of the two a behaviour runs.         *)
(*                                                                         *)
(* JavaScript strings that the code concatenates or indexes (namespace,    *)
(* key, room names, channels) are sequences of one-character strings.      *)
(* Sets (Set<string>) and flag objects are heap objects addressed by       *)
(* reference, because the code shares them between builders.               *)
(***************************************************************************)
EXTENDS Integers, Sequences, FiniteSets, TLC

VARIABLES
    dialect,    \* "subject" (src/lib/index.ts) or "property" (src/unnamed/part_003)
    emitters,   \* Seq of Emitter objects; emitters[1] is the root emitter
    heap,       \* [sets: Seq of Set<string> objects, flags: Seq of BroadcastFlags objects]
    ops,        \* Seq of BroadcastOperator objects the callers hold a reference to
    created,    \* history: for each operator, the values it had when constructed
    sent,       \* Seq of the arguments sbSender.sendMessages was invoked with
    promises,   \* for each send, the promise of sendMessage(): its state and who holds it
    lastCall,   \* the latest terminal call: its inputs and its outcome for the caller
    nReturned,  \* number of terminal calls that returned without throwing
    nEncode     \* number of payloads broadcastOptions.parser.encode has returned

vars == <<dialect, emitters, heap, ops, created, sent, promises, lastCall,
          nReturned, nEncode>>

----------------------------------------------------------------------------
(* Bounds of the model *)

\* emitters, operators and sends a behaviour may hold together
MaxObjects == 4

\* invocations of sbSender.sendMessages in a behaviour that derives emitters
\* or operators; a behaviour that only uses the root emitter may make one more
MaxSent == 1

----------------------------------------------------------------------------
(* Program constants *)

UID == "emitter"

REMOTE_JOIN == 2
REMOTE_LEAVE == 3
REMOTE_DISCONNECT == 4
SERVER_SIDE_EMIT == 6

\* PacketType.EVENT of socket.io-parser
PacketEVENT == 2

ContentType == "application/octet-stream"

RESERVED_EVENTS ==
    {"connect", "connect_error", "disconnect", "disconnecting",
     "newListener", "removeListener"}

DefaultKey == <<"s", "o", "c", "k", "e", "t", ".", "i", "o">>

DefaultNsp == <<"/">>

DefaultParser == "msgpack"

\* "-request#" of the request channel
RequestInfix == <<"-", "r", "e", "q", "u", "e", "s", "t", "#">>

Hash == <<"#">>

----------------------------------------------------------------------------
(* Inputs the callers draw from *)

Dialects == {"subject", "property"}

RoomA == <<"a">>
RoomB == <<"b">>

\* room: string | string[]
RoomArgs ==
    { [arr |-> FALSE, one |-> RoomA],
      [arr |-> TRUE, list |-> <<RoomB, RoomA, RoomB>>] }

NoRoomArg == [arr |-> TRUE, list |-> <<>>]

Str(s) == [t |-> "string", v |-> s]
Fn == [t |-> "function", v |-> "callback"]
JsNull == [t |-> "null", v |-> "null"]

EventNames == {"connect", "disconnecting", "test"}

\* a value the configured codec has no encoding for: its encode throws
Unencodable == [t |-> "unencodable", v |-> "value"]

EmitArgs == { <<Str("x"), Str("y")>>, <<Unencodable>> }

\* close?: boolean, given or left out
CloseArgs == { [given |-> FALSE, v |-> FALSE], [given |-> TRUE, v |-> FALSE],
               [given |-> TRUE, v |-> TRUE] }

ServerArgs == { <<>>, <<Str("hello"), Str("world")>>, <<Str("hello"), Fn>>,
                <<Fn, Str("world")>> }

\* nsp arguments of the constructor and of of()
RootNsps == { DefaultNsp, <<"c">> }
OfArgs == { <<>>, <<"/">>, <<"c">>, <<"/", "c">> }

SettledOrPending == {"pending", "fulfilled", "rejected"}

----------------------------------------------------------------------------
(* Emitter construction *)

\* Object.assign(target, source): the source's own keys override the target's
ObjectAssign(target, source) ==
    [k \in (DOMAIN target) \cup (DOMAIN source) |->
        IF k \in DOMAIN source THEN source[k] ELSE target[k]]

NewEmitter_RequestDefaultKey(opts, nsp) ==
    LET o == ObjectAssign([key |-> DefaultKey, parser |-> DefaultParser], opts)
    IN  [nsp  |-> nsp,
         opts |-> o,
         broadcastOptions |->
            [nsp              |-> nsp,
             broadcastChannel |-> o.key \o Hash \o nsp \o Hash,
             requestChannel   |-> DefaultKey \o RequestInfix \o nsp \o Hash,
             parser           |-> o.parser]]

\* constructor(sbSender, opts, nsp = "/")
NewEmitter(opts, nsp) ==
    LET o == ObjectAssign([key |-> DefaultKey, parser |-> DefaultParser], opts)
    IN  [nsp  |-> nsp,
         opts |-> o,
         broadcastOptions |->
            [nsp              |-> nsp,
             broadcastChannel |-> o.key \o Hash \o nsp \o Hash,
             requestChannel   |-> o.key \o RequestInfix \o nsp \o Hash,
             parser           |-> o.parser]]

OfNsp_AlwaysPrepend(nsp) == <<"/">> \o nsp

\* (nsp[0] !== "/" ? "/" : "") + nsp ; nsp[0] of the empty string is undefined
OfNsp(nsp) ==
    (IF Len(nsp) = 0 \/ nsp[1] # "/" THEN <<"/">> ELSE <<>>) \o nsp

EmitterOfResult_DefaultOpts(e, nsp) ==
    NewEmitter([k \in {} |-> TRUE], OfNsp(nsp))

\* new Emitter(this.sbSender, this.opts, normalised nsp)
EmitterOfResult(e, nsp) == NewEmitter(e.opts, OfNsp(nsp))

----------------------------------------------------------------------------
(* Set<string> and BroadcastFlags objects *)

SetAdd_NoDedup(s, r) == Append(s, r)

\* Set.prototype.add: insertion order is kept, a present value is not added again
SetAdd(s, r) ==
    IF \E i \in 1..Len(s) : s[i] = r THEN s ELSE Append(s, r)

RECURSIVE AddEach(_, _)
\* list.forEach((r) => set.add(r))
AddEach(s, list) ==
    IF list = <<>> THEN s ELSE AddEach(SetAdd(s, Head(list)), Tail(list))

\* Array.isArray(room) ? room : [room]
ToList(room) == IF room.arr THEN room.list ELSE <<room.one>>

EmptyFlags == [k \in {} |-> TRUE]

\* the rooms a room argument names
RoomsIn(room) ==
    IF room.arr THEN { room.list[i] : i \in 1..Len(room.list) } ELSE { room.one }

\* new BroadcastOperator(sbSender, broadcastOptions): the default arguments
\* allocate two empty sets and an empty flags object
NewOperator(H, bo) ==
    [H  |-> [sets  |-> H.sets \o << <<>>, <<>> >>,
             flags |-> Append(H.flags, EmptyFlags)],
     op |-> [bo          |-> bo,
             rooms       |-> Len(H.sets) + 1,
             exceptRooms |-> Len(H.sets) + 2,
             flags       |-> Len(H.flags) + 1]]

\* the values an operator's references point to
Deref(H, op) ==
    [rooms  |-> H.sets[op.rooms],
     except |-> H.sets[op.exceptRooms],
     flags  |-> H.flags[op.flags]]

----------------------------------------------------------------------------
(* Refinements of BroadcastOperator: each returns the new heap and the new  *)
(* operator                                                                *)

BuilderTo_InPlace(H, op, room) ==
    LET rooms == AddEach(H.sets[op.rooms], ToList(room))
    IN  [H  |-> [H EXCEPT !.sets[op.rooms] = rooms],
         op |-> op]

BuilderTo(H, op, room) ==
    LET rooms == AddEach(H.sets[op.rooms], ToList(room))
    IN  [H  |-> [H EXCEPT !.sets = Append(@, rooms)],
         op |-> [op EXCEPT !.rooms = Len(H.sets) + 1]]

BuilderIn_Replaces(H, op, room) ==
    LET rooms == AddEach(<<>>, ToList(room))
    IN  [H  |-> [H EXCEPT !.sets = Append(@, rooms)],
         op |-> [op EXCEPT !.rooms = Len(H.sets) + 1]]

\* in(room) { return this.to(room) }
BuilderIn(H, op, room) == BuilderTo(H, op, room)

BuilderExcept_InPlace(H, op, room) ==
    LET exceptRooms == AddEach(H.sets[op.exceptRooms], ToList(room))
    IN  [H  |-> [H EXCEPT !.sets[op.exceptRooms] = exceptRooms],
         op |-> op]

BuilderExcept_DropsFromRooms(H, op, room) ==
    LET exceptRooms == AddEach(H.sets[op.exceptRooms], ToList(room))
        rooms == SelectSeq(H.sets[op.rooms], LAMBDA x : x \notin RoomsIn(room))
    IN  [H  |-> [H EXCEPT !.sets = @ \o <<exceptRooms, rooms>>],
         op |-> [op EXCEPT !.exceptRooms = Len(H.sets) + 1,
                           !.rooms = Len(H.sets) + 2]]

BuilderExcept(H, op, room) ==
    LET exceptRooms == AddEach(H.sets[op.exceptRooms], ToList(room))
    IN  [H  |-> [H EXCEPT !.sets = Append(@, exceptRooms)],
         op |-> [op EXCEPT !.exceptRooms = Len(H.sets) + 1]]

BuilderCompress_OnlyWhenTrue(H, op, compress) ==
    LET flags == IF compress
                 THEN ObjectAssign(ObjectAssign(EmptyFlags, H.flags[op.flags]),
                                   [compress |-> TRUE])
                 ELSE ObjectAssign(EmptyFlags, H.flags[op.flags])
    IN  [H  |-> [H EXCEPT !.flags = Append(@, flags)],
         op |-> [op EXCEPT !.flags = Len(H.flags) + 1]]

BuilderCompress(H, op, compress) ==
    LET flags == ObjectAssign(ObjectAssign(EmptyFlags, H.flags[op.flags]),
                              [compress |-> compress])
    IN  [H  |-> [H EXCEPT !.flags = Append(@, flags)],
         op |-> [op EXCEPT !.flags = Len(H.flags) + 1]]

BuilderVolatile_ResetsFlags(H, op) ==
    [H  |-> [H EXCEPT !.flags = Append(@, [volatile |-> TRUE])],
     op |-> [op EXCEPT !.flags = Len(H.flags) + 1]]

BuilderVolatile(H, op) ==
    LET flags == ObjectAssign(ObjectAssign(EmptyFlags, H.flags[op.flags]),
                              [volatile |-> TRUE])
    IN  [H  |-> [H EXCEPT !.flags = Append(@, flags)],
         op |-> [op EXCEPT !.flags = Len(H.flags) + 1]]

----------------------------------------------------------------------------
(* Encoding *)

CloseDefault_True(close) == IF close.given THEN close.v ELSE TRUE

\* close: boolean = false
CloseDefault(close) == IF close.given THEN close.v ELSE FALSE

HasType(args, t) == \E i \in 1..Len(args) : args[i].t = t

EncodeThrows_Never(parser, args) == FALSE

\* parser.encode throws on a value it has no encoding for; the default codec
\* (MessagePack) has none for a function, a caller's JSON-style codec writes
\* a function as null
EncodeThrows(parser, args) ==
    \/ HasType(args, "unencodable")
    \/ parser = DefaultParser /\ HasType(args, "function")

\* the error the codec throws
EncodeError == "Could not encode"

\* broadcastOptions.parser.encode(msg): the payload is the codec's output for
\* the record; the codec is a library (notepack.io / @msgpack/msgpack) or the
\* caller's own function, so the payload is kept symbolic
Encode(parser, value) == [codec |-> parser, value |-> value]

\* JSON.stringify(value)
JsonStringify(value) == [codec |-> "JSON.stringify", value |-> value]

\* JSON.stringify writes a function held in an array as null
JsonArray(args) ==
    [i \in 1..Len(args) |-> IF args[i].t = "function" THEN JsNull ELSE args[i]]

----------------------------------------------------------------------------
(* The argument of sbSender.sendMessages *)

\* BroadcastOperator.sendMessage(channel, body)
OperatorSendArg(op, channel, body) ==
    IF dialect = "subject"
    THEN [body |-> body, contentType |-> ContentType, subject |-> channel]
    ELSE [body |-> body, contentType |-> ContentType,
          applicationProperties |-> [nsp |-> op.bo.nsp]]

\* Emitter.sendMessage(channel, body)
EmitterSendArg(e, channel, body) ==
    IF dialect = "subject"
    THEN [body |-> body, contentType |-> ContentType, subject |-> channel]
    ELSE [body |-> body, contentType |-> ContentType,
          applicationProperties |-> [nsp |-> e.nsp, uid |-> UID]]

IsReserved_OneMissing(ev) == ev \in RESERVED_EVENTS \ {"disconnecting"}

\* RESERVED_EVENTS.has(ev)
IsReserved(ev) == ev \in RESERVED_EVENTS

EmitChannel_AnyRooms(H, op) ==
    IF Len(H.sets[op.rooms]) >= 1
    THEN op.bo.broadcastChannel \o H.sets[op.rooms][1] \o Hash
    ELSE op.bo.broadcastChannel

\* let channel = broadcastChannel; if (rooms.size === 1) channel += room + "#"
EmitChannel(H, op) ==
    IF Len(H.sets[op.rooms]) = 1
    THEN op.bo.broadcastChannel \o H.sets[op.rooms][1] \o Hash
    ELSE op.bo.broadcastChannel

EmitMessage_ArgsOnly(H, op, ev, args) ==
    LET packet == [type |-> PacketEVENT, data |-> args, nsp |-> op.bo.nsp]
        opts   == [rooms  |-> H.sets[op.rooms],
                   flags  |-> H.flags[op.flags],
                   except |-> H.sets[op.exceptRooms]]
    IN  IF dialect = "subject"
        THEN OperatorSendArg(op, EmitChannel(H, op),
                             Encode(op.bo.parser, <<UID, packet, opts>>))
        ELSE OperatorSendArg(op, <<>>,
                Encode(op.bo.parser,
                       [uid  |-> UID,
                        type |-> "BROADCAST",
                        data |-> [packet |-> packet, opts |-> opts],
                        nsp  |-> packet.nsp]))

\* BroadcastOperator.emit, from `const data` to the sendMessage call
EmitMessage(H, op, ev, args) ==
    LET packet == [type |-> PacketEVENT,
                   data |-> <<Str(ev)>> \o args,
                   nsp  |-> op.bo.nsp]
        opts   == [rooms  |-> H.sets[op.rooms],
                   flags  |-> H.flags[op.flags],
                   except |-> H.sets[op.exceptRooms]]
    IN  IF dialect = "subject"
        THEN LET msg == Encode(op.bo.parser, <<UID, packet, opts>>)
                 channel == EmitChannel(H, op)
             IN  OperatorSendArg(op, channel, msg)
        ELSE LET clusterMessage ==
                    [uid  |-> UID,
                     type |-> "BROADCAST",
                     data |-> [packet |-> [type |-> PacketEVENT,
                                           data |-> packet.data,
                                           nsp  |-> packet.nsp],
                               opts   |-> [rooms  |-> opts.rooms,
                                           flags  |-> opts.flags,
                                           except |-> opts.except]],
                     nsp  |-> packet.nsp]
             IN  OperatorSendArg(op, <<>>, Encode(op.bo.parser, clusterMessage))

SocketsJoinMessage_Conflated(H, op, rooms) ==
    LET merged == AddEach(H.sets[op.rooms], ToList(rooms))
    IN  IF dialect = "subject"
        THEN OperatorSendArg(op, op.bo.requestChannel,
                JsonStringify([type  |-> REMOTE_JOIN,
                               opts  |-> [rooms  |-> merged,
                                          except |-> H.sets[op.exceptRooms]],
                               rooms |-> merged]))
        ELSE OperatorSendArg(op, <<>>,
                Encode(op.bo.parser,
                       [uid  |-> UID,
                        type |-> "SOCKETS_JOIN",
                        data |-> [opts  |-> [rooms  |-> merged,
                                             except |-> H.sets[op.exceptRooms],
                                             flags  |-> H.flags[op.flags]],
                                  rooms |-> merged],
                        nsp  |-> op.bo.nsp]))

\* BroadcastOperator.socketsJoin
SocketsJoinMessage(H, op, rooms) ==
    IF dialect = "subject"
    THEN LET request ==
                JsonStringify([type  |-> REMOTE_JOIN,
                               opts  |-> [rooms  |-> H.sets[op.rooms],
                                          except |-> H.sets[op.exceptRooms]],
                               rooms |-> ToList(rooms)])
         IN  OperatorSendArg(op, op.bo.requestChannel, request)
    ELSE LET clusterMessage ==
                [uid  |-> UID,
                 type |-> "SOCKETS_JOIN",
                 data |-> [opts  |-> [rooms  |-> H.sets[op.rooms],
                                      except |-> H.sets[op.exceptRooms],
                                      flags  |-> H.flags[op.flags]],
                           rooms |-> ToList(rooms)],
                 nsp  |-> op.bo.nsp]
         IN  OperatorSendArg(op, <<>>, Encode(op.bo.parser, clusterMessage))

\* BroadcastOperator.socketsLeave
SocketsLeaveMessage(H, op, rooms) ==
    IF dialect = "subject"
    THEN LET request ==
                JsonStringify([type  |-> REMOTE_LEAVE,
                               opts  |-> [rooms  |-> H.sets[op.rooms],
                                          except |-> H.sets[op.exceptRooms]],
                               rooms |-> ToList(rooms)])
         IN  OperatorSendArg(op, op.bo.requestChannel, request)
    ELSE LET clusterMessage ==
                [uid  |-> UID,
                 type |-> "SOCKETS_LEAVE",
                 data |-> [opts  |-> [rooms  |-> H.sets[op.rooms],
                                      except |-> H.sets[op.exceptRooms],
                                      flags  |-> H.flags[op.flags]],
                           rooms |-> ToList(rooms)],
                 nsp  |-> op.bo.nsp]
         IN  OperatorSendArg(op, <<>>, Encode(op.bo.parser, clusterMessage))

\* BroadcastOperator.disconnectSockets
DisconnectSocketsMessage(H, op, close) ==
    IF dialect = "subject"
    THEN LET request ==
                JsonStringify([type  |-> REMOTE_DISCONNECT,
                               opts  |-> [rooms  |-> H.sets[op.rooms],
                                          except |-> H.sets[op.exceptRooms]],
                               close |-> CloseDefault(close)])
         IN  OperatorSendArg(op, op.bo.requestChannel, request)
    ELSE LET clusterMessage ==
                [uid  |-> UID,
                 type |-> "DISCONNECT_SOCKETS",
                 data |-> [opts  |-> [rooms  |-> H.sets[op.rooms],
                                      except |-> H.sets[op.exceptRooms],
                                      flags  |-> H.flags[op.flags]],
                           close |-> CloseDefault(close)],
                 nsp  |-> op.bo.nsp]
         IN  OperatorSendArg(op, <<>>, Encode(op.bo.parser, clusterMessage))

WithAck_AnyArg(args) == \E i \in 1..Len(args) : args[i].t = "function"

WithAck_FirstArg(args) == Len(args) > 0 /\ args[1].t = "function"

\* typeof args[args.length - 1] === "function"
WithAck(args) == Len(args) > 0 /\ args[Len(args)].t = "function"

ServerSideEmitMessage_DropsFirst(e, args) ==
    LET rest == IF args = <<>> THEN <<>> ELSE Tail(args)
    IN  IF dialect = "subject"
        THEN EmitterSendArg(e, e.broadcastOptions.requestChannel,
                JsonStringify([uid  |-> UID,
                               type |-> SERVER_SIDE_EMIT,
                               data |-> JsonArray(rest)]))
        ELSE EmitterSendArg(e, <<>>,
                Encode(e.broadcastOptions.parser,
                       [uid  |-> UID,
                        type |-> "SERVER_SIDE_EMIT",
                        data |-> [packet |-> rest],
                        nsp  |-> e.nsp]))

\* Emitter.serverSideEmit, after the acknowledgement check
ServerSideEmitMessage(e, args) ==
    IF dialect = "subject"
    THEN LET request ==
                JsonStringify([uid  |-> UID,
                               type |-> SERVER_SIDE_EMIT,
                               data |-> JsonArray(args)])
         IN  EmitterSendArg(e, e.broadcastOptions.requestChannel, request)
    ELSE LET clusterMessage ==
                [uid  |-> UID,
                 type |-> "SERVER_SIDE_EMIT",
                 data |-> [packet |-> args],
                 nsp  |-> e.nsp]
         IN  EmitterSendArg(e, <<>>,
                            Encode(e.broadcastOptions.parser, clusterMessage))

\* how many times a terminal operation calls parser.encode
EncodeCalls(opname) ==
    IF dialect = "subject" THEN (IF opname = "emit" THEN 1 ELSE 0) ELSE 1

----------------------------------------------------------------------------
(* What a terminal call gives back to its caller *)

EmitReturn_Nothing == [kind |-> "value", v |-> "undefined", promise |-> 0]

\* `return true` of emit
EmitReturn == [kind |-> "value", v |-> "true", promise |-> 0]

\* the void terminal operations end without a return statement
VoidReturn == [kind |-> "value", v |-> "undefined", promise |-> 0]

\* throw new Error(message)
Thrown(message) == [kind |-> "throw", v |-> message, promise |-> 0]

NoCall ==
    [op |-> "none", onOp |-> FALSE, target |-> 0, ev |-> "", args |-> <<>>,
     room |-> NoRoomArg, close |-> [given |-> FALSE, v |-> FALSE],
     threw |-> FALSE, encoded |-> FALSE, ret |-> VoidReturn,
     send |-> 0, sentBefore |-> 0, encBefore |-> 0, refinedBefore |-> FALSE]

\* the record of a call: its inputs, what had been sent and encoded when it
\* was made, and whether its target had been refined before (for an Emitter:
\* whether operators had been made from it)
Call(opname, onOp, target) ==
    [NoCall EXCEPT !.op = opname, !.onOp = onOp, !.target = target,
                   !.sentBefore = Len(sent), !.encBefore = nEncode,
                   !.refinedBefore =
                        IF onOp
                        THEN \E c \in 1..Len(ops) : created[c].parent = target
                        ELSE \E c \in 1..Len(ops) :
                                ops[c].bo = emitters[target].broadcastOptions]

----------------------------------------------------------------------------
(* Initial state: one root emitter, built by `new Emitter(sbSender, opts, nsp)` *)

EmptyOpts == [k \in {} |-> TRUE]

OptsArgs == { EmptyOpts, [key |-> <<"k">>, parser |-> "custom"] }

\* the arguments of `new Emitter(sbSender, opts, nsp)`: the defaults, or a
\* configured key and codec with a namespace
ConstructorArgs ==
    { a \in [opts : OptsArgs, nsp : RootNsps] :
        (a.opts = EmptyOpts) <=> (a.nsp = DefaultNsp) }

Init ==
    /\ dialect \in Dialects
    /\ \E a \in ConstructorArgs :
          emitters = << NewEmitter(a.opts, a.nsp) >>
    /\ heap = [sets |-> <<>>, flags |-> <<>>]
    /\ ops = <<>>
    /\ created = <<>>
    /\ sent = <<>>
    /\ promises = <<>>
    /\ lastCall = NoCall
    /\ nReturned = 0
    /\ nEncode = 0

----------------------------------------------------------------------------
(* Refinements *)

\* the bound on the sends of a behaviour
SendLimit ==
    IF Len(emitters) + Len(ops) = 1 THEN MaxSent + 1 ELSE MaxSent

\* the bound on the objects of a behaviour
HasRoom ==
    /\ Len(emitters) + Len(ops) + Len(sent) < MaxObjects
    /\ Len(sent) <= MaxSent

\* the rooms given so far to a fresh operator
NoHist == [given |-> {}, excluded |-> {}, vol |-> FALSE, comp |-> "unset"]

\* the caller keeps the operator a refinement returned; `created` records what
\* the operator and its parent held at that moment, and the arguments the
\* chain was given: rooms, excluded rooms, volatile, the last compress value
Derive(r, parentH, parentOp, parentIdx, parentHist, via, arg) ==
    /\ HasRoom
    /\ heap' = r.H
    /\ ops' = Append(ops, r.op)
    /\ created' = Append(created,
          [val       |-> Deref(r.H, r.op),
           parentVal |-> Deref(parentH, parentOp),
           parent    |-> parentIdx,
           via       |-> via,
           given     |-> parentHist.given \cup
                         (IF via = "to" THEN RoomsIn(arg) ELSE {}),
           excluded  |-> parentHist.excluded \cup
                         (IF via = "except" THEN RoomsIn(arg) ELSE {}),
           vol       |-> (parentHist.vol \/ via = "volatile"),
           comp      |-> (IF via = "compress"
                          THEN (IF arg THEN "true" ELSE "false")
                          ELSE parentHist.comp)])
    /\ UNCHANGED <<dialect, emitters, sent, promises, lastCall, nReturned, nEncode>>

EmitterOf(e, nsp) ==
    /\ HasRoom
    /\ emitters' = Append(emitters, EmitterOfResult(emitters[e], nsp))
    /\ UNCHANGED <<dialect, heap, ops, created, sent, promises, lastCall,
                   nReturned, nEncode>>

EmitterTo(e, room) ==
    LET t == NewOperator(heap, emitters[e].broadcastOptions)
    IN  Derive(BuilderTo(t.H, t.op, room), t.H, t.op, 0, NoHist, "to", room)

EmitterIn(e, room) ==
    LET t == NewOperator(heap, emitters[e].broadcastOptions)
    IN  Derive(BuilderIn(t.H, t.op, room), t.H, t.op, 0, NoHist, "to", room)

EmitterExcept(e, room) ==
    LET t == NewOperator(heap, emitters[e].broadcastOptions)
    IN  Derive(BuilderExcept(t.H, t.op, room), t.H, t.op, 0, NoHist, "except", room)

EmitterVolatile(e) ==
    LET t == NewOperator(heap, emitters[e].broadcastOptions)
    IN  Derive(BuilderVolatile(t.H, t.op), t.H, t.op, 0, NoHist, "volatile", NoRoomArg)

EmitterCompress(e, compress) ==
    LET t == NewOperator(heap, emitters[e].broadcastOptions)
    IN  Derive(BuilderCompress(t.H, t.op, compress), t.H, t.op, 0, NoHist,
               "compress", compress)

OpTo(b, room) ==
    Derive(BuilderTo(heap, ops[b], room), heap, ops[b], b, created[b],
           "to", room)

OpIn(b, room) ==
    Derive(BuilderIn(heap, ops[b], room), heap, ops[b], b, created[b],
           "to", room)

OpExcept(b, room) ==
    Derive(BuilderExcept(heap, ops[b], room), heap, ops[b], b, created[b],
           "except", room)

OpVolatile(b) ==
    Derive(BuilderVolatile(heap, ops[b]), heap, ops[b], b, created[b],
           "volatile", NoRoomArg)

OpCompress(b, compress) ==
    Derive(BuilderCompress(heap, ops[b], compress), heap, ops[b], b,
           created[b], "compress", compress)

----------------------------------------------------------------------------
(* Terminal operations *)

\* the call throws before anything is encoded or sent; a call that threw is
\* recorded by its operation and what it threw
TerminalThrow(call) ==
    /\ lastCall' = [call EXCEPT !.target = 0, !.onOp = FALSE, !.args = <<>>,
                                !.ev = "", !.refinedBefore = FALSE]
    /\ UNCHANGED <<dialect, emitters, heap, ops, created, sent, promises,
                   nReturned, nEncode>>

TerminalSend_Prepends(call, arg, encodes) ==
    /\ Len(emitters) + Len(ops) + Len(sent) < MaxObjects
    /\ Len(sent) <= MaxSent
    /\ Len(sent) < (IF Len(emitters) + Len(ops) = 1 THEN MaxSent + 1 ELSE MaxSent)
    /\ sent' = <<arg>> \o sent
    /\ promises' = <<"pending">> \o promises
    /\ lastCall' = [call EXCEPT !.send = 1, !.encoded = (encodes > 0)]
    /\ nReturned' = nReturned + 1
    /\ nEncode' = nEncode + encodes
    /\ UNCHANGED <<dialect, emitters, heap, ops, created>>

\* this.sendMessage(channel, msg): the async function runs up to its await, so
\* sbSender.sendMessages has been invoked when the terminal call returns; the
\* promise sendMessage returns is pending and is not given to anyone
TerminalSend(call, arg, encodes) ==
    /\ HasRoom
    /\ Len(sent) < SendLimit
    /\ sent' = Append(sent, arg)
    /\ promises' = Append(promises, "pending")
    /\ lastCall' = [call EXCEPT !.send = Len(sent) + 1,
                                !.encoded = (encodes > 0)]
    /\ nReturned' = nReturned + 1
    /\ nEncode' = nEncode + encodes
    /\ UNCHANGED <<dialect, emitters, heap, ops, created>>

DoEmit(H, op, onOp, target, ev, args) ==
    LET call == [Call("emit", onOp, target) EXCEPT !.ev = ev, !.args = args]
    IN  IF IsReserved(ev)
        THEN TerminalThrow([call EXCEPT !.threw = TRUE,
                                        !.ret = Thrown("is a reserved event name")])
        ELSE IF EncodeThrows(op.bo.parser, args)
        THEN TerminalThrow([call EXCEPT !.threw = TRUE, !.encoded = TRUE,
                                        !.ret = Thrown(EncodeError)])
        ELSE TerminalSend([call EXCEPT !.ret = EmitReturn],
                          EmitMessage(H, op, ev, args), EncodeCalls("emit"))

DoSocketsJoin(H, op, onOp, target, rooms) ==
    TerminalSend([Call("socketsJoin", onOp, target) EXCEPT !.room = rooms],
                 SocketsJoinMessage(H, op, rooms), EncodeCalls("socketsJoin"))

DoSocketsLeave(H, op, onOp, target, rooms) ==
    TerminalSend([Call("socketsLeave", onOp, target) EXCEPT !.room = rooms],
                 SocketsLeaveMessage(H, op, rooms), EncodeCalls("socketsLeave"))

DoDisconnectSockets(H, op, onOp, target, close) ==
    TerminalSend([Call("disconnectSockets", onOp, target) EXCEPT !.close = close],
                 DisconnectSocketsMessage(H, op, close),
                 EncodeCalls("disconnectSockets"))

OpEmit(b, ev, args) == DoEmit(heap, ops[b], TRUE, b, ev, args)

OpSocketsJoin(b, rooms) == DoSocketsJoin(heap, ops[b], TRUE, b, rooms)

OpSocketsLeave(b, rooms) == DoSocketsLeave(heap, ops[b], TRUE, b, rooms)

OpDisconnectSockets(b, close) == DoDisconnectSockets(heap, ops[b], TRUE, b, close)

EmitterEmit_OnLastOperator(e, ev, args) ==
    IF ops # <<>>
    THEN DoEmit(heap, ops[Len(ops)], FALSE, e, ev, args)
    ELSE LET t == NewOperator(heap, emitters[e].broadcastOptions)
         IN  DoEmit(t.H, t.op, FALSE, e, ev, args)

\* the Emitter's terminal operations run on a fresh BroadcastOperator that
\* nobody keeps: its sets and flags are garbage once the call has returned
EmitterEmit(e, ev, args) ==
    LET t == NewOperator(heap, emitters[e].broadcastOptions)
    IN  DoEmit(t.H, t.op, FALSE, e, ev, args)

EmitterSocketsJoin(e, rooms) ==
    LET t == NewOperator(heap, emitters[e].broadcastOptions)
    IN  DoSocketsJoin(t.H, t.op, FALSE, e, rooms)

EmitterSocketsLeave(e, rooms) ==
    LET t == NewOperator(heap, emitters[e].broadcastOptions)
    IN  DoSocketsLeave(t.H, t.op, FALSE, e, rooms)

EmitterDisconnectSockets(e, close) ==
    LET t == NewOperator(heap, emitters[e].broadcastOptions)
    IN  DoDisconnectSockets(t.H, t.op, FALSE, e, close)

EmitterServerSideEmit(e, args) ==
    LET call == [Call("serverSideEmit", FALSE, e) EXCEPT !.args = args]
    IN  IF WithAck(args)
        THEN TerminalThrow([call EXCEPT !.threw = TRUE,
                                 !.ret = Thrown("Acknowledgements are not supported")])
        ELSE IF /\ EncodeCalls("serverSideEmit") > 0
                /\ EncodeThrows(emitters[e].broadcastOptions.parser, args)
        THEN TerminalThrow([call EXCEPT !.threw = TRUE, !.encoded = TRUE,
                                        !.ret = Thrown(EncodeError)])
        ELSE TerminalSend(call, ServerSideEmitMessage(emitters[e], args),
                          EncodeCalls("serverSideEmit"))

----------------------------------------------------------------------------
(* The transport settles the promise of a send *)

AfterRejection_Retry(i) == Append(sent, sent[i])

\* nothing in sendMessage reacts to a rejection: no catch, no second send
AfterRejection(i) == sent

TransportResolve(i) ==
    /\ promises[i] = "pending"
    /\ promises' = [promises EXCEPT ![i] = "fulfilled"]
    /\ UNCHANGED <<dialect, emitters, heap, ops, created, sent, lastCall,
                   nReturned, nEncode>>

TransportReject(i) ==
    /\ promises[i] = "pending"
    /\ promises' = [promises EXCEPT ![i] = "rejected"]
    /\ sent' = AfterRejection(i)
    /\ UNCHANGED <<dialect, emitters, heap, ops, created, lastCall,
                   nReturned, nEncode>>

----------------------------------------------------------------------------

Next ==
    \/ \E e \in 1..Len(emitters), nsp \in OfArgs : EmitterOf(e, nsp)
    \/ \E e \in 1..Len(emitters), room \in RoomArgs : EmitterTo(e, room)
    \/ \E e \in 1..Len(emitters), room \in RoomArgs : EmitterIn(e, room)
    \/ \E e \in 1..Len(emitters), room \in RoomArgs : EmitterExcept(e, room)
    \/ \E e \in 1..Len(emitters) : EmitterVolatile(e)
    \/ \E e \in 1..Len(emitters), c \in BOOLEAN : EmitterCompress(e, c)
    \/ \E b \in 1..Len(ops), room \in RoomArgs : OpTo(b, room)
    \/ \E b \in 1..Len(ops), room \in RoomArgs : OpIn(b, room)
    \/ \E b \in 1..Len(ops), room \in RoomArgs : OpExcept(b, room)
    \/ \E b \in 1..Len(ops) : OpVolatile(b)
    \/ \E b \in 1..Len(ops), c \in BOOLEAN : OpCompress(b, c)
    \/ \E e \in 1..Len(emitters), ev \in EventNames, args \in EmitArgs :
          EmitterEmit(e, ev, args)
    \/ \E e \in 1..Len(emitters), rooms \in RoomArgs : EmitterSocketsJoin(e, rooms)
    \/ \E e \in 1..Len(emitters), rooms \in RoomArgs : EmitterSocketsLeave(e, rooms)
    \/ \E e \in 1..Len(emitters), close \in CloseArgs : EmitterDisconnectSockets(e, close)
    \/ \E e \in 1..Len(emitters), args \in ServerArgs : EmitterServerSideEmit(e, args)
    \/ \E b \in 1..Len(ops), ev \in EventNames, args \in EmitArgs : OpEmit(b, ev, args)
    \/ \E b \in 1..Len(ops), rooms \in RoomArgs : OpSocketsJoin(b, rooms)
    \/ \E b \in 1..Len(ops), rooms \in RoomArgs : OpSocketsLeave(b, rooms)
    \/ \E b \in 1..Len(ops), close \in CloseArgs : OpDisconnectSockets(b, close)
    \/ \E i \in 1..Len(promises) : TransportResolve(i)
    \/ \E i \in 1..Len(promises) : TransportReject(i)

Spec == Init /\ [][Next]_vars

----------------------------------------------------------------------------
(* Reading the latest terminal call and the message it sent *)

ReservedNames ==
    {"connect", "connect_error", "disconnect", "disconnecting",
     "newListener", "removeListener"}

CriteriaOps == {"emit", "socketsJoin", "socketsLeave", "disconnectSockets"}

ControlOps == {"socketsJoin", "socketsLeave", "disconnectSockets"}

Range(q) == { q[i] : i \in 1..Len(q) }

\* the latest call handed a message to the transport
LastSent == lastCall.send # 0

LastArg == sent[lastCall.send]

\* the record the payload was made from
LastValue == LastArg.body.value

\* the selection criteria inside the message of emit / socketsJoin /
\* socketsLeave / disconnectSockets
LastOpts ==
    IF dialect = "subject"
    THEN (IF lastCall.op = "emit" THEN LastValue[3] ELSE LastValue.opts)
    ELSE LastValue.data.opts

\* the target room list of a socketsJoin / socketsLeave message
LastTargetRooms ==
    IF dialect = "subject" THEN LastValue.rooms ELSE LastValue.data.rooms

\* the origin tag inside the message, "none" when the record has no uid
LastUid ==
    IF dialect = "subject" /\ lastCall.op = "emit"
    THEN LastValue[1]
    ELSE IF "uid" \in DOMAIN LastValue THEN LastValue.uid ELSE "none"

\* what the builder the call was made on held when it was created; a call on
\* an Emitter runs on a fresh operator
TargetVal ==
    IF lastCall.onOp
    THEN created[lastCall.target].val
    ELSE [rooms |-> <<>>, except |-> <<>>, flags |-> EmptyFlags]

TargetGiven ==
    IF lastCall.onOp THEN created[lastCall.target].given ELSE {}

TargetExcluded ==
    IF lastCall.onOp THEN created[lastCall.target].excluded ELSE {}

TargetNsp ==
    IF lastCall.onOp
    THEN ops[lastCall.target].bo.nsp
    ELSE emitters[lastCall.target].nsp

\* the message carries namespace n: in the record and the application
\* properties (property-routed), or as a segment of the subject (subject-routed)
LastCarriesNsp(n) ==
    IF dialect = "subject"
    THEN \/ \E i \in 1..Len(LastArg.subject) :
              /\ i + Len(n) + 1 <= Len(LastArg.subject)
              /\ SubSeq(LastArg.subject, i, i + Len(n) + 1) = Hash \o n \o Hash
    ELSE LastValue.nsp = n /\ LastArg.applicationProperties.nsp = n

----------------------------------------------------------------------------
(* C1: a refinement never changes the builder it is called on: every        *)
(* operator still holds the rooms, except set and flags it was created      *)
(* with, and a terminal call on an operator sends exactly those, also       *)
(* after operators were derived from it.                                    *)
C1_RefinementsKeepBuilder ==
    /\ \A b \in 1..Len(ops) : Deref(heap, ops[b]) = created[b].val
    /\ (LastSent /\ lastCall.onOp /\ lastCall.op \in CriteriaOps) =>
          /\ LastOpts.rooms = TargetVal.rooms
          /\ LastOpts.except = TargetVal.except
          /\ ("flags" \in DOMAIN LastOpts => LastOpts.flags = TargetVal.flags)

\* a terminal call on an operator from which a different operator had been
\* derived before
C1_Witness ==
    /\ LastSent /\ lastCall.onOp /\ lastCall.refinedBefore
    /\ lastCall.op = "emit"
    /\ \E c \in 1..Len(ops) :
          /\ created[c].parent = lastCall.target
          /\ created[c].val # created[lastCall.target].val

(* C2: emit with a reserved event name throws, on the Emitter and on every  *)
(* BroadcastOperator; the failed call calls no codec and hands nothing to   *)
(* the transport, and no message of a reserved event is ever sent.          *)
C2_FailedCall ==
    /\ lastCall'.threw
    /\ lastCall'.ret.kind = "throw"
    /\ ~ lastCall'.encoded
    /\ sent' = sent
    /\ promises' = promises
    /\ nEncode' = nEncode

C2_ReservedEmitThrows ==
    /\ \A ev \in ReservedNames, args \in EmitArgs :
          /\ \A e \in 1..Len(emitters) :
                /\ ENABLED EmitterEmit(e, ev, args)
                /\ ~ ENABLED (EmitterEmit(e, ev, args) /\ ~ C2_FailedCall)
          /\ \A b \in 1..Len(ops) :
                /\ ENABLED OpEmit(b, ev, args)
                /\ ~ ENABLED (OpEmit(b, ev, args) /\ ~ C2_FailedCall)
    /\ (lastCall.op = "emit" /\ lastCall.threw
            /\ lastCall.ret.v = "is a reserved event name") =>
          /\ ~ lastCall.encoded
          /\ lastCall.send = 0
          /\ Len(sent) = lastCall.sentBefore
          /\ nEncode = lastCall.encBefore
    /\ (lastCall.op = "emit" /\ ~ lastCall.threw) =>
          lastCall.ev \notin ReservedNames

\* an emit has thrown after a message had been sent, with operators that
\* hold rooms, an except set and flags
C2_Witness ==
    /\ lastCall.op = "emit" /\ lastCall.threw
    /\ lastCall.ret.v = "is a reserved event name"
    /\ Len(sent) = 1
    /\ \E b \in 1..Len(ops) :
          /\ created[b].val.rooms # <<>>
          /\ created[b].val.except # <<>>

(* C3: the number of sendMessages invocations equals the number of terminal *)
(* calls that returned without throwing; each such call handed over exactly *)
(* one message before returning, refinements hand over none and a rejected  *)
(* send is not sent again.                                                  *)
C3_OneSendPerReturnedCall ==
    /\ Len(sent) = nReturned
    /\ Len(promises) = Len(sent)
    /\ (lastCall.op # "none" /\ ~ lastCall.threw) =>
          /\ lastCall.send = lastCall.sentBefore + 1
          /\ lastCall.send <= Len(sent)

\* after refinements, a terminal call returned and its send was rejected
C3_Witness ==
    /\ nReturned = 1
    /\ Len(ops) >= 1
    /\ Len(promises) = 1
    /\ promises[1] = "rejected"

(* C4: when the send of a terminal call's message rejects, the failure      *)
(* reaches the caller of that terminal call: the caller was given the       *)
(* promise of the send and can observe its rejection.                       *)
C4_FailureReachesCaller ==
    (LastSent /\ promises[lastCall.send] = "rejected") =>
        lastCall.ret.promise = lastCall.send

(* C5: emit with a non-reserved event name returns true, and it returns     *)
(* while the send is still pending; the value stays true whether the send   *)
(* later resolves, rejects or stays pending.                                *)
C5_EmitReturnsTrue ==
    /\ []((lastCall.op = "emit" /\ ~ lastCall.threw) =>
            /\ lastCall.ret = [kind |-> "value", v |-> "true", promise |-> 0]
            /\ promises[lastCall.send] \in SettledOrPending)
    /\ [][(nReturned' = nReturned + 1 /\ lastCall'.op = "emit") =>
            /\ lastCall'.ret.v = "true"
            /\ promises'[lastCall'.send] = "pending"]_vars

\* emit returned true and its send was rejected afterwards
C5_Witness ==
    /\ lastCall.op = "emit" /\ ~ lastCall.threw
    /\ lastCall.ret.v = "true"
    /\ promises[lastCall.send] = "rejected"

(* C6: the rooms field of the message sent by emit holds exactly the rooms  *)
(* given to the to/in calls of the chain, each once.                        *)
C6_RoomsAreUnionOfGiven ==
    (LastSent /\ lastCall.op = "emit") =>
        /\ Range(LastOpts.rooms) = TargetGiven
        /\ Len(LastOpts.rooms) = Cardinality(TargetGiven)

\* emit after two chained to/in calls with overlapping room lists
C6_Witness ==
    /\ LastSent /\ lastCall.op = "emit" /\ lastCall.onOp
    /\ LET b == lastCall.target
       IN  /\ created[b].via = "to"
           /\ created[b].parent # 0
           /\ created[created[b].parent].via = "to"
           /\ created[created[b].parent].given = {RoomA, RoomB}
           /\ created[b].given = {RoomA, RoomB}

(* C7: rooms and except accumulate independently: except leaves the rooms   *)
(* set as it was and to leaves the except set as it was, and a room both    *)
(* included and excluded is in both fields of the message sent.             *)
C7_RoomsAndExceptIndependent ==
    /\ \A b \in 1..Len(ops) :
          /\ created[b].via = "except" =>
                created[b].val.rooms = created[b].parentVal.rooms
          /\ created[b].via = "to" =>
                created[b].val.except = created[b].parentVal.except
    /\ (LastSent /\ lastCall.op \in CriteriaOps) =>
          \A r \in TargetGiven \cap TargetExcluded :
              r \in Range(LastOpts.rooms) /\ r \in Range(LastOpts.except)

\* a message sent for a builder that includes and excludes the same room
C7_Witness ==
    /\ LastSent /\ lastCall.op = "emit" /\ lastCall.onOp
    /\ created[lastCall.target].via = "except"
    /\ RoomA \in TargetGiven \cap TargetExcluded

(* C8: socketsJoin(T) and socketsLeave(T) on a builder with rooms R send    *)
(* the target room list T (a single name as a one-element list) and the     *)
(* criteria rooms R, neither merged into the other.                         *)
C8_TargetAndCriteriaApart ==
    (LastSent /\ lastCall.op \in {"socketsJoin", "socketsLeave"}) =>
        /\ LastTargetRooms =
              (IF lastCall.room.arr THEN lastCall.room.list
                                    ELSE << lastCall.room.one >>)
        /\ LastOpts.rooms = TargetVal.rooms

\* socketsJoin of a single room on a builder restricted to other rooms
C8_Witness ==
    /\ LastSent /\ lastCall.op = "socketsJoin" /\ lastCall.onOp
    /\ ~ lastCall.room.arr
    /\ TargetVal.rooms = <<RoomB, RoomA>>

(* C9: in each dialect the message of socketsJoin, socketsLeave and         *)
(* disconnectSockets carries the builder's rooms, except set and flags as   *)
(* selection criteria.                                                      *)
C9_ControlCarriesCriteria ==
    (LastSent /\ lastCall.op \in ControlOps) =>
        /\ LastOpts.rooms = TargetVal.rooms
        /\ LastOpts.except = TargetVal.except
        /\ \A k \in DOMAIN TargetVal.flags :
              /\ "flags" \in DOMAIN LastOpts
              /\ k \in DOMAIN LastOpts.flags
              /\ LastOpts.flags[k] = TargetVal.flags[k]

(* C10: every message handed to the transport, of every kind and in each    *)
(* dialect, carries the origin tag "emitter" and the namespace of the       *)
(* builder that issued it.                                                  *)
C10_OriginAndNamespace ==
    LastSent => (LastUid = "emitter" /\ LastCarriesNsp(TargetNsp))

----------------------------------------------------------------------------
(* Reading the configuration and the chain behind the latest terminal call *)

\* the emitter whose broadcastOptions the target of the call runs with
TargetEmitter ==
    IF lastCall.onOp
    THEN CHOOSE e \in Range(emitters) :
            e.broadcastOptions = ops[lastCall.target].bo
    ELSE emitters[lastCall.target]

TargetKey == TargetEmitter.opts.key

TargetParser == TargetEmitter.opts.parser

\* volatile was applied somewhere in the chain of the call's target
TargetVol == lastCall.onOp /\ created[lastCall.target].vol

\* the argument of the last compress call of the chain, "unset" without one
TargetComp ==
    IF lastCall.onOp THEN created[lastCall.target].comp ELSE "unset"

\* a flag of a flags object as the receiver reads it
FlagOf(f, k) ==
    IF k \in DOMAIN f THEN (IF f[k] THEN "true" ELSE "false") ELSE "unset"

\* the argument list inside a serverSideEmit message
LastData ==
    IF dialect = "subject" THEN LastValue.data ELSE LastValue.data.packet

TargetingFields == {"rooms", "except", "flags", "opts"}

TrailingFunction(args) ==
    Len(args) > 0 /\ args[Len(args)] = [t |-> "function", v |-> "callback"]

Serializable(args) == \A i \in 1..Len(args) : args[i].t # "function"

\* a string begins with "/"
SlashFirst(n) == Len(n) > 0 /\ n[1] = "/"

\* the namespace of(n) is documented to give
Normalized(n) == IF SlashFirst(n) THEN n ELSE <<"/">> \o n

(* C11: serverSideEmit whose last argument is a function throws             *)
(* "Acknowledgements are not supported" synchronously, on every emitter;    *)
(* the failed call calls no codec and hands nothing to the transport.       *)
C11_AckThrows ==
    /\ \A args \in ServerArgs : TrailingFunction(args) =>
          \A e \in 1..Len(emitters) :
              /\ ENABLED EmitterServerSideEmit(e, args)
              /\ ~ ENABLED (EmitterServerSideEmit(e, args) /\
                            ~ (C2_FailedCall /\ lastCall'.ret.v =
                                    "Acknowledgements are not supported"))
    /\ (lastCall.op = "serverSideEmit" /\ lastCall.threw
            /\ lastCall.ret.v = "Acknowledgements are not supported") =>
          /\ lastCall.ret.kind = "throw"
          /\ ~ lastCall.encoded
          /\ lastCall.send = 0
          /\ Len(sent) = lastCall.sentBefore
          /\ nEncode = lastCall.encBefore
    /\ (lastCall.op = "serverSideEmit" /\ ~ lastCall.threw) =>
          ~ TrailingFunction(lastCall.args)

\* serverSideEmit has thrown on an emitter of a namespace after a message
\* had been sent
C11_Witness ==
    /\ lastCall.op = "serverSideEmit" /\ lastCall.threw
    /\ lastCall.ret.v = "Acknowledgements are not supported"
    /\ Len(sent) = 1
    /\ Len(emitters) > 1

C13_NamespaceBeginsWithSlash ==
    /\ \A e \in 1..Len(emitters) : SlashFirst(emitters[e].nsp)
    /\ LastSent => (SlashFirst(TargetNsp) /\ LastCarriesNsp(TargetNsp))

(* C14: of(n) returns an emitter whose namespace is n when n begins with    *)
(* "/" and "/" followed by n otherwise (of("c") gives "/c", of("") gives    *)
(* "/", normalising twice changes nothing); the emitters that existed keep  *)
(* their namespace, and a message sent through an emitter carries that      *)
(* emitter's namespace.                                                     *)
C14_OfNormalizes ==
    /\ [][\A e \in 1..Len(emitters), n \in OfArgs :
            EmitterOf(e, n) =>
               /\ Len(emitters') = Len(emitters) + 1
               /\ emitters'[Len(emitters')].nsp = Normalized(n)
               /\ (\E m \in OfArgs : n = Normalized(m)) =>
                     emitters'[Len(emitters')].nsp = n
               /\ (n = <<"c">>) => emitters'[Len(emitters')].nsp = <<"/", "c">>
               /\ (n = <<>>) => emitters'[Len(emitters')].nsp = <<"/">>
               /\ \A x \in 1..Len(emitters) : emitters'[x] = emitters[x]]_vars
    /\ []((LastSent /\ ~ lastCall.onOp) =>
             LastCarriesNsp(emitters[lastCall.target].nsp))
    /\ []((LastSent /\ lastCall.onOp) =>
             \E e \in 1..Len(emitters) :
                /\ emitters[e].broadcastOptions = ops[lastCall.target].bo
                /\ LastCarriesNsp(emitters[e].nsp))

\* a message sent through the emitter of("c") or of("/c") returned, while
\* the root emitter still has namespace "/"
C14_Witness ==
    /\ LastSent /\ ~ lastCall.onOp
    /\ lastCall.target > 1
    /\ emitters[lastCall.target].nsp = <<"/", "c">>
    /\ emitters[1].nsp = <<"/">>

(* C15: the message emit sends after compress(false) has flags.compress =   *)
(* false, and the message of a chain that never called compress has no      *)
(* compress flag.                                                           *)
C15_CompressFalseIsNotUnset ==
    (LastSent /\ lastCall.op = "emit") =>
        /\ TargetComp = "false" =>
              /\ "compress" \in DOMAIN LastOpts.flags
              /\ LastOpts.flags.compress = FALSE
        /\ TargetComp = "unset" => "compress" \notin DOMAIN LastOpts.flags

\* emit on a builder made by compress(false)
C15_Witness ==
    /\ LastSent /\ lastCall.op = "emit" /\ lastCall.onOp
    /\ created[lastCall.target].via = "compress"
    /\ TargetComp = "false"

(* C16: volatile sets flags.volatile to true and compress(b) sets           *)
(* flags.compress to b; each leaves the other flag, the rooms and the       *)
(* except set as they were. The flags of a message are volatile = true iff  *)
(* volatile was applied in the chain, and compress = the argument of the    *)
(* last compress call.                                                      *)
C16_FlagsFollowChain ==
    /\ \A b \in 1..Len(ops) :
          LET c == created[b]
          IN  /\ c.via = "volatile" =>
                    /\ FlagOf(c.val.flags, "volatile") = "true"
                    /\ FlagOf(c.val.flags, "compress") =
                          FlagOf(c.parentVal.flags, "compress")
                    /\ c.val.rooms = c.parentVal.rooms
                    /\ c.val.except = c.parentVal.except
              /\ c.via = "compress" =>
                    /\ FlagOf(c.val.flags, "compress") = c.comp
                    /\ FlagOf(c.val.flags, "volatile") =
                          FlagOf(c.parentVal.flags, "volatile")
                    /\ c.val.rooms = c.parentVal.rooms
                    /\ c.val.except = c.parentVal.except
    /\ (LastSent /\ lastCall.op \in CriteriaOps /\ "flags" \in DOMAIN LastOpts) =>
          /\ (FlagOf(LastOpts.flags, "volatile") = "true") <=> TargetVol
          /\ FlagOf(LastOpts.flags, "volatile") \in {"true", "unset"}
          /\ FlagOf(LastOpts.flags, "compress") = TargetComp

\* emit on a chain that applied compress and then volatile
C16_Witness ==
    /\ LastSent /\ lastCall.op = "emit" /\ lastCall.onOp
    /\ created[lastCall.target].via = "volatile"
    /\ TargetComp # "unset"

(* C17: in the subject-routed dialect the subject of emit's message is      *)
(* <key>#<namespace>#<room># when the chain was given exactly one distinct  *)
(* room, and <key>#<namespace># when it was given none or several; the      *)
(* except set and the flags play no part.                                   *)
C17_BroadcastSubject ==
    (dialect = "subject" /\ LastSent /\ lastCall.op = "emit") =>
        LastArg.subject =
            TargetKey \o <<"#">> \o TargetNsp \o <<"#">> \o
            (IF Cardinality(TargetGiven) = 1
             THEN (CHOOSE r \in TargetGiven : TRUE) \o <<"#">>
             ELSE <<>>)

\* emit to one room given twice, with an excluded room
C17_Witness ==
    /\ dialect = "subject"
    /\ LastSent /\ lastCall.op = "emit" /\ lastCall.onOp
    /\ TargetGiven = {RoomA}
    /\ TargetExcluded # {}

(* C18: in the subject-routed dialect the message of socketsJoin,           *)
(* socketsLeave, disconnectSockets and serverSideEmit has the subject       *)
(* <key>-request#<namespace>#, with the configured key and the namespace of *)
(* the builder, whatever its rooms, except set and flags.                   *)
C18_RequestSubject ==
    (dialect = "subject" /\ LastSent
        /\ lastCall.op \in ControlOps \cup {"serverSideEmit"}) =>
        LastArg.subject =
            TargetKey \o <<"-", "r", "e", "q", "u", "e", "s", "t", "#">> \o
            TargetNsp \o <<"#">>

\* socketsJoin with a configured key on a builder restricted to rooms
C18_Witness ==
    /\ dialect = "subject"
    /\ LastSent /\ lastCall.op = "socketsJoin" /\ lastCall.onOp
    /\ TargetKey = <<"k">>
    /\ TargetVal.rooms # <<>>

(* C19: in the property-routed dialect no message has a subject, every      *)
(* message has the builder's namespace in its application properties, and   *)
(* the message of emit also has the origin identifier there.                *)
C19_PropertyMetadata ==
    (dialect = "property" /\ LastSent) =>
        /\ "subject" \notin DOMAIN LastArg
        /\ LastArg.applicationProperties.nsp = TargetNsp
        /\ lastCall.op = "emit" =>
              /\ "uid" \in DOMAIN LastArg.applicationProperties
              /\ LastArg.applicationProperties.uid = "emitter"

(* C20: the payload every terminal operation hands to the transport is the  *)
(* output of the configured codec for the message record, also when a       *)
(* custom codec was supplied in the options.                                *)
C20_ConfiguredCodecEncodes ==
    LastSent => LastArg.body.codec = TargetParser

----------------------------------------------------------------------------
(* Reading the parts of the latest message, and the message a builder      *)
(* would send for the latest call                                           *)

\* the packet inside the message of emit
LastPacket ==
    IF dialect = "subject" THEN LastValue[2] ELSE LastValue.data.packet

\* the close flag inside the message of disconnectSockets
LastClose ==
    IF dialect = "subject" THEN LastValue.close ELSE LastValue.data.close

\* the kind of the message, in the names of the property-routed dialect
LastKind ==
    IF dialect = "property" THEN LastValue.type
    ELSE IF lastCall.op = "emit" THEN "BROADCAST"
    ELSE IF LastValue.type = 2 THEN "SOCKETS_JOIN"
    ELSE IF LastValue.type = 3 THEN "SOCKETS_LEAVE"
    ELSE IF LastValue.type = 4 THEN "DISCONNECT_SOCKETS"
    ELSE IF LastValue.type = 6 THEN "SERVER_SIDE_EMIT"
    ELSE "unknown"

KindOf(opname) ==
    IF opname = "emit" THEN "BROADCAST"
    ELSE IF opname = "socketsJoin" THEN "SOCKETS_JOIN"
    ELSE IF opname = "socketsLeave" THEN "SOCKETS_LEAVE"
    ELSE IF opname = "disconnectSockets" THEN "DISCONNECT_SOCKETS"
    ELSE "SERVER_SIDE_EMIT"

\* an operator as the constructor's defaults make it, in a heap of its own
Fresh(bo) == NewOperator([sets |-> <<>>, flags |-> <<>>], bo)

\* the two room arguments as one list
Both(r1, r2) == [arr |-> TRUE, list |-> ToList(r1) \o ToList(r2)]

\* the argument of sendMessages when the latest call is made on builder t
MessageOn(t) ==
    IF lastCall.op = "emit"
    THEN EmitMessage(t.H, t.op, lastCall.ev, lastCall.args)
    ELSE IF lastCall.op = "socketsJoin"
    THEN SocketsJoinMessage(t.H, t.op, lastCall.room)
    ELSE IF lastCall.op = "socketsLeave"
    THEN SocketsLeaveMessage(t.H, t.op, lastCall.room)
    ELSE DisconnectSocketsMessage(t.H, t.op, lastCall.close)

GoodArgs == << [t |-> "string", v |-> "x"], [t |-> "string", v |-> "y"] >>

BadArgs == << [t |-> "unencodable", v |-> "value"] >>

\* the bounds of the model leave room for one more send
CanSend == HasRoom /\ Len(sent) < SendLimit

(* C21: the key and the codec given to the root emitter are used by every   *)
(* emitter of() returns and by every operator derived at any depth: same    *)
(* options, same codec, channels built from the same key.                   *)
C21_CodecAndKeyThreaded ==
    LET root == emitters[1]
    IN  /\ \A e \in 1..Len(emitters) :
              /\ emitters[e].opts = root.opts
              /\ emitters[e].broadcastOptions.parser = root.opts.parser
              /\ emitters[e].broadcastOptions.broadcastChannel =
                    root.opts.key \o <<"#">> \o emitters[e].nsp \o <<"#">>
        /\ \A b \in 1..Len(ops) :
              /\ ops[b].bo.parser = root.opts.parser
              /\ ops[b].bo.broadcastChannel =
                    root.opts.key \o <<"#">> \o ops[b].bo.nsp \o <<"#">>
        /\ (LastSent /\ lastCall.op = "emit") =>
              LastArg.body.codec = root.opts.parser

\* a configured root emitter, an emitter of() returned and an operator of
\* depth two derived from it
C21_Witness ==
    /\ emitters[1].opts.key = <<"k">>
    /\ emitters[1].opts.parser = "custom"
    /\ \E b \in 1..Len(ops) :
          /\ created[b].parent # 0
          /\ ops[b].bo.nsp = <<"/", "c">>

(* C22: in is an alias of to: for every starting builder P and all room     *)
(* arguments a and b, P.to(a).in(b) has the rooms, except set and flags of  *)
(* P.to(a followed by b), and a terminal call on it sends the message the   *)
(* same call on P.to(a followed by b) sends.                                *)
C22_InIsTo ==
    /\ [][\A x \in 1..Len(ops), b \in RoomArgs :
            (OpIn(x, b) /\ created[x].via = "to") =>
               LET P == IF created[x].parent = 0
                        THEN NewOperator(heap, ops[x].bo)
                        ELSE [H |-> heap, op |-> ops[created[x].parent]]
               IN  \A a \in RoomArgs :
                      LET viaA  == BuilderTo(P.H, P.op, a)
                          viaAB == BuilderTo(P.H, P.op, Both(a, b))
                      IN  (Deref(viaA.H, viaA.op) = created[x].val) =>
                             Deref(heap', ops'[Len(ops')]) =
                                Deref(viaAB.H, viaAB.op)]_vars
    /\ []((LastSent /\ lastCall.onOp /\ lastCall.op \in CriteriaOps) =>
            LET y == lastCall.target
                x == created[y].parent
            IN  (created[y].via = "to" /\ x # 0) =>
                  ((created[x].via = "to" /\ created[x].parent = 0) =>
                     \A a \in RoomArgs, b \in RoomArgs :
                        LET P     == Fresh(ops[y].bo)
                            viaA  == BuilderTo(P.H, P.op, a)
                            viaAB == BuilderTo(P.H, P.op, Both(a, b))
                        IN  (/\ Deref(viaA.H, viaA.op) = created[x].val
                             /\ AddEach(created[x].val.rooms, ToList(b)) =
                                   created[y].val.rooms) =>
                               LastArg = MessageOn(viaAB)))

\* a terminal call on to("a").in(["b","a","b"])
C22_Witness ==
    /\ LastSent /\ lastCall.onOp
    /\ LET y == lastCall.target
       IN  /\ created[y].via = "to"
           /\ created[y].parent # 0
           /\ created[created[y].parent].via = "to"
           /\ created[created[y].parent].parent = 0
           /\ created[created[y].parent].val.rooms = <<RoomA>>
           /\ created[y].val.rooms = <<RoomA, RoomB>>

(* C23: emit(ev, a1..an) with a non-reserved ev sends a BROADCAST message   *)
(* whose packet has type EVENT (2), data [ev, a1..an] in order and the      *)
(* builder's namespace, with the builder's rooms, except set and flags.     *)
C23_EmitMessage ==
    (LastSent /\ lastCall.op = "emit") =>
        /\ LastKind = "BROADCAST"
        /\ dialect = "subject" => (Len(LastValue) = 3 /\ LastValue[1] = "emitter")
        /\ LastPacket.type = 2
        /\ LastPacket.data = << [t |-> "string", v |-> lastCall.ev] >> \o lastCall.args
        /\ LastPacket.nsp = TargetNsp
        /\ LastOpts.rooms = TargetVal.rooms
        /\ LastOpts.except = TargetVal.except
        /\ LastOpts.flags = TargetVal.flags

\* emit("test", "x", "y") on a builder with a room and a flag
C23_Witness ==
    /\ LastSent /\ lastCall.op = "emit" /\ lastCall.onOp
    /\ lastCall.args = GoodArgs
    /\ TargetVal.rooms # <<>>
    /\ DOMAIN TargetVal.flags # {}

(* C24: disconnectSockets(close) sends a DISCONNECT_SOCKETS message whose   *)
(* close flag is the argument, and false when the argument is left out.     *)
C24_CloseFlag ==
    (LastSent /\ lastCall.op = "disconnectSockets") =>
        /\ LastKind = "DISCONNECT_SOCKETS"
        /\ lastCall.close.given => LastClose = lastCall.close.v
        /\ ~ lastCall.close.given => LastClose = FALSE

\* disconnectSockets() without an argument, on an operator
C24_Witness ==
    /\ LastSent /\ lastCall.op = "disconnectSockets" /\ lastCall.onOp
    /\ ~ lastCall.close.given

(* C25: whatever calls of other chains are interleaved with a chain's       *)
(* calls, the chain's terminal call sends what the chain's own calls        *)
(* determine: the rooms and excluded rooms it was given, each once, and     *)
(* the flags it set.                                                        *)
C25_ChainsDoNotInterfere ==
    (LastSent /\ lastCall.op \in CriteriaOps) =>
        /\ Range(LastOpts.rooms) = TargetGiven
        /\ Len(LastOpts.rooms) = Cardinality(TargetGiven)
        /\ Range(LastOpts.except) = TargetExcluded
        /\ Len(LastOpts.except) = Cardinality(TargetExcluded)
        /\ "flags" \in DOMAIN LastOpts =>
              /\ FlagOf(LastOpts.flags, "volatile") =
                    (IF TargetVol THEN "true" ELSE "unset")
              /\ FlagOf(LastOpts.flags, "compress") = TargetComp

\* a terminal call on a builder from which another chain had branched with
\* except before the call
C25_Witness ==
    /\ LastSent /\ lastCall.onOp /\ lastCall.refinedBefore
    /\ lastCall.op \in CriteriaOps
    /\ \E c \in 1..Len(ops) :
          /\ created[c].parent = lastCall.target
          /\ created[c].via = "except"

(* C26: the message has the same logical fields in both dialects: its       *)
(* kind, the origin tag, the namespace, and for emit, socketsJoin,          *)
(* socketsLeave and disconnectSockets the rooms, except set and flags of    *)
(* the builder; the dialects differ only in where the fields travel.        *)
C26_DialectIndependent ==
    LastSent =>
        /\ LastKind = KindOf(lastCall.op)
        /\ LastUid = "emitter"
        /\ LastCarriesNsp(TargetNsp)
        /\ lastCall.op \in CriteriaOps =>
              /\ LastOpts.rooms = TargetVal.rooms
              /\ LastOpts.except = TargetVal.except
              /\ "flags" \in DOMAIN LastOpts
              /\ LastOpts.flags = TargetVal.flags

(* C27: emit, socketsJoin, socketsLeave and disconnectSockets called on an  *)
(* Emitter send a message with rooms = [], except = [] and no flag, also    *)
(* after operators were made from that emitter.                             *)
C27_EmitterLevelCriteriaEmpty ==
    (LastSent /\ ~ lastCall.onOp /\ lastCall.op \in CriteriaOps) =>
        /\ LastOpts.rooms = <<>>
        /\ LastOpts.except = <<>>
        /\ "flags" \in DOMAIN LastOpts => DOMAIN LastOpts.flags = {}

\* emit on an emitter from which an operator with rooms had been made
C27_Witness ==
    /\ LastSent /\ ~ lastCall.onOp /\ lastCall.refinedBefore
    /\ lastCall.op = "emit"
    /\ \E b \in 1..Len(ops) :
          /\ ops[b].bo = emitters[lastCall.target].broadcastOptions
          /\ created[b].val.rooms # <<>>

(* C28: sendMessages is invoked in the order of the terminal calls: a       *)
(* call's message is handed over after the messages of all calls that      *)
(* returned before it, whether or not their sends have settled, and the     *)
(* settling of a send moves no message.                                     *)
C28_HandedOverInCallOrder ==
    /\ [][(nReturned' = nReturned + 1) =>
            /\ Len(sent') = Len(sent) + 1
            /\ lastCall'.send = Len(sent')
            /\ SubSeq(sent', 1, Len(sent)) = sent
            /\ SubSeq(promises', 1, Len(promises)) = promises]_vars
    /\ [][(nReturned' = nReturned) => sent' = sent]_vars

\* a second message handed over while the send of the first is pending
C28_Witness ==
    /\ Len(sent) = 2
    /\ promises[1] = "pending"
    /\ lastCall.send = 2
    /\ lastCall.sentBefore = 1

(* C29: when the codec's encode throws, the terminal call throws that       *)
(* error and hands nothing to the transport; emitters and builders are      *)
(* left as they were, and a later emit with encodable arguments sends one   *)
(* message.                                                                 *)
C29_EncodeErrorPropagates ==
    /\ \A e \in 1..Len(emitters) :
          /\ ENABLED EmitterEmit(e, "test", BadArgs)
          /\ ~ ENABLED (EmitterEmit(e, "test", BadArgs) /\
                        ~ (/\ lastCall'.threw
                           /\ lastCall'.ret.v = "Could not encode"
                           /\ sent' = sent /\ promises' = promises
                           /\ ops' = ops /\ heap' = heap /\ emitters' = emitters))
    /\ \A b \in 1..Len(ops) :
          /\ ENABLED OpEmit(b, "test", BadArgs)
          /\ ~ ENABLED (OpEmit(b, "test", BadArgs) /\
                        ~ (/\ lastCall'.threw
                           /\ lastCall'.ret.v = "Could not encode"
                           /\ sent' = sent /\ promises' = promises
                           /\ ops' = ops /\ heap' = heap /\ emitters' = emitters))
    /\ (lastCall.threw /\ lastCall.encoded) =>
          /\ lastCall.ret.kind = "throw"
          /\ lastCall.ret.v = "Could not encode"
          /\ lastCall.send = 0
          /\ Len(sent) = lastCall.sentBefore
          /\ CanSend =>
                /\ \A e \in 1..Len(emitters) :
                      ENABLED (EmitterEmit(e, "test", GoodArgs) /\
                               Len(sent') = Len(sent) + 1)
                /\ \A b \in 1..Len(ops) :
                      ENABLED (OpEmit(b, "test", GoodArgs) /\
                               Len(sent') = Len(sent) + 1)
    /\ (lastCall.op = "emit" /\ ~ lastCall.threw) =>
          \A i \in 1..Len(lastCall.args) : lastCall.args[i].t # "unencodable"

\* encode has thrown in an emit while operators exist and another send fits
C29_Witness ==
    /\ lastCall.op = "emit" /\ lastCall.threw /\ lastCall.encoded
    /\ Len(ops) >= 1
    /\ CanSend

(* C30 as stated: serverSideEmit throws if and only if its last argument    *)
(* is a function; with no arguments, or with a function in another          *)
(* position, it does not throw and sends one SERVER_SIDE_EMIT message.      *)
C30_ThrowsOnlyOnLastArgument ==
    \A e \in 1..Len(emitters), args \in ServerArgs :
        /\ TrailingFunction(args) =>
              ~ ENABLED (EmitterServerSideEmit(e, args) /\ ~ lastCall'.threw)
        /\ (~ TrailingFunction(args) /\ CanSend) =>
              /\ ENABLED EmitterServerSideEmit(e, args)
              /\ ~ ENABLED (EmitterServerSideEmit(e, args) /\
                            ~ (~ lastCall'.threw /\ Len(sent') = Len(sent) + 1))

(* C30 amended: serverSideEmit throws the acknowledgement error if and only *)
(* if its last argument is a function. With no arguments or serializable    *)
(* arguments it sends one SERVER_SIDE_EMIT message. With a function in      *)
(* another position the subject-routed dialect sends one message, and the   *)
(* property-routed dialect sends one message unless the codec rejects the   *)
(* function, in which case the codec's error is thrown and nothing is sent. *)
C30_AckErrorOnlyOnLastArgument ==
    /\ \A e \in 1..Len(emitters), args \in ServerArgs :
          /\ TrailingFunction(args) =>
                /\ ENABLED EmitterServerSideEmit(e, args)
                /\ ~ ENABLED (EmitterServerSideEmit(e, args) /\
                              ~ (lastCall'.threw /\ lastCall'.ret.v =
                                    "Acknowledgements are not supported"))
          /\ ~ TrailingFunction(args) =>
                ~ ENABLED (EmitterServerSideEmit(e, args) /\
                           lastCall'.ret.v = "Acknowledgements are not supported")
          /\ (~ TrailingFunction(args) /\ CanSend
                /\ (Serializable(args) \/ dialect = "subject")) =>
                /\ ENABLED EmitterServerSideEmit(e, args)
                /\ ~ ENABLED (EmitterServerSideEmit(e, args) /\
                              ~ (~ lastCall'.threw /\ Len(sent') = Len(sent) + 1))
          /\ (~ TrailingFunction(args) /\ CanSend) =>
                /\ ENABLED EmitterServerSideEmit(e, args)
                /\ ~ ENABLED (EmitterServerSideEmit(e, args) /\
                              ~ \/ (~ lastCall'.threw /\ Len(sent') = Len(sent) + 1)
                                \/ (/\ lastCall'.threw /\ lastCall'.encoded
                                    /\ lastCall'.ret.v = "Could not encode"
                                    /\ sent' = sent))
    /\ (LastSent /\ lastCall.op = "serverSideEmit") =>
          /\ LastKind = "SERVER_SIDE_EMIT"
          /\ ~ TrailingFunction(lastCall.args)

\* serverSideEmit(fn, "world") has sent a message
C30_Witness ==
    /\ LastSent /\ lastCall.op = "serverSideEmit"
    /\ Len(lastCall.args) = 2
    /\ lastCall.args[1].t = "function"

====
